---- MODULE Spec2Model ----
(***************************************************************************)
(* CourseWatch (src/src/main.py): a poller that fetches watched pages,     *)
(* extracts an availability number, evaluates a trigger condition and      *)
(* raises a tracker issue on an unavailable -> available transition.       *)
(*                                                                         *)
(* Python values are modelled as follows.                                  *)
(*   - Optional[T]: None is <<>>, a value x is <<x>>.                      *)
(*   - dict: a function whose DOMAIN is the set of keys that are present.  *)
(*   - an exception: the tagged record [kind |-> "raise", exc |-> ...].    *)
(*   - a page: a sequence of lexical tokens (see Pages below).              *)
(*   - watch ids are YAML strings, as the watch list documents them.       *)
(***************************************************************************)
EXTENDS Integers, Sequences, FiniteSets, TLC

None == <<>>

Some(x) == <<x>>

\* dict.get(k) with no default: Optional
GetOpt(d, k) == IF k \in DOMAIN d THEN <<d[k]>> ELSE <<>>

\* dict.get(k, default)
Get(d, k, default) == IF k \in DOMAIN d THEN d[k] ELSE default

\* d[k] = v
Put(d, k, v) == [x \in (DOMAIN d) \cup {k} |-> IF x = k THEN v ELSE d[x]]

\* d.pop(k, None)
Pop(d, k) == [x \in (DOMAIN d) \ {k} |-> d[x]]

EmptyDict == <<>>

Return(v) == [kind |-> "return", val |-> v]

Raise(e) == [kind |-> "raise", exc |-> e]

(***************************************************************************)
(* Pages.  A page is a sequence of tokens:                                 *)
(*   "A"   the text "Availability no" (in any letter case)                 *)
(*   "S"   the text "Seats" (in any letter case), another keyword          *)
(*   ":" "#"  the separators the patterns accept                           *)
(*   " "   a space or tab, "\n" a line break                               *)
(*   "0" "1" "2"  decimal digits                                           *)
(*   "x"   any other visible character                                     *)
(*   "<>"  a markup tag                                                    *)
(***************************************************************************)
Digits == {"0", "1", "2"}

DigitVal(t) == CASE t = "0" -> 0 [] t = "1" -> 1 [] t = "2" -> 2

Space == {" ", "\n"}

Separators == {":", "#"}

DefaultKeyword == "A"

\* the token that spells keyword kw, compared with re.IGNORECASE / .lower()
IsKeywordAt(text, p, kw) == p <= Len(text) /\ text[p] = kw

\* BeautifulSoup get_text(separator="\n"): tags vanish, text nodes are joined by "\n"
RECURSIVE GetText(_)
GetText(html) ==
    IF html = <<>> THEN <<>>
    ELSE IF Head(html) = "<>" THEN <<"\n">> \o GetText(Tail(html))
    ELSE <<Head(html)>> \o GetText(Tail(html))

\* re.sub(r"[ \t]+", " ", text) when c = " ", re.sub(r"\n{2,}", "\n", text) when c = "\n"
RECURSIVE Collapse(_, _)
Collapse(text, c) ==
    IF Len(text) < 2 THEN text
    ELSE IF text[1] = c /\ text[2] = c THEN Collapse(Tail(text), c)
    ELSE <<Head(text)>> \o Collapse(Tail(text), c)

Normalize(html) == Collapse(Collapse(GetText(html), " "), "\n")

\* the first position >= p whose token is not in set S (Len+1 when there is none)
RECURSIVE SkipWhile(_, _, _)
SkipWhile(text, p, S) ==
    IF p <= Len(text) /\ text[p] \in S THEN SkipWhile(text, p + 1, S) ELSE p

\* int() of the digit run text[p..q-1]
RECURSIVE ParseInt(_, _, _, _)
ParseInt(text, p, q, acc) ==
    IF p >= q THEN acc ELSE ParseInt(text, p + 1, q, 10 * acc + DigitVal(text[p]))

\* a pattern that accepts only ':' as the separator
MatchTail_ColonOnly(text, p) ==
    LET a == SkipWhile(text, p, Space)
        b == IF a <= Len(text) /\ text[a] = ":" THEN a + 1 ELSE a
        c == SkipWhile(text, b, Space)
        e == SkipWhile(text, c, Digits)
    IN  IF e > c THEN Some(ParseInt(text, c, e, 0)) ELSE None

\* after a keyword ending before p: \s*[:#]?\s*([0-9]+); Optional[int]
MatchTail(text, p) ==
    LET a == SkipWhile(text, p, Space)
        b == IF a <= Len(text) /\ text[a] \in Separators THEN a + 1 ELSE a
        c == SkipWhile(text, b, Space)
        e == SkipWhile(text, c, Digits)
    IN  IF e > c THEN Some(ParseInt(text, c, e, 0)) ELSE None

\* re.search(rf"{kw}\s*[:#]?\s*([0-9]+)", text, re.IGNORECASE): leftmost match from p
RECURSIVE SearchPattern(_, _, _)
SearchPattern(text, p, kw) ==
    IF p > Len(text) THEN None
    ELSE IF IsKeywordAt(text, p, kw) /\ MatchTail(text, p + 1) # None
         THEN MatchTail(text, p + 1)
         ELSE SearchPattern(text, p + 1, kw)

\* re.search(r"([0-9]+)", line): the first digit run of text[p..q-1]
RECURSIVE FirstDigits(_, _, _)
FirstDigits(text, p, q) ==
    IF p >= q THEN None
    ELSE IF text[p] \in Digits
         THEN LET e == SkipWhile(SubSeq(text, 1, q - 1), p, Digits)
              IN  Some(ParseInt(text, p, e, 0))
         ELSE FirstDigits(text, p + 1, q)

\* the end (exclusive) of the line that starts at p
RECURSIVE LineEnd(_, _)
LineEnd(text, p) ==
    IF p > Len(text) \/ text[p] = "\n" THEN p ELSE LineEnd(text, p + 1)

\* for line in text.splitlines(): if keyword in line: first digit run of that line
RECURSIVE LineScan(_, _, _)
LineScan(text, p, kw) ==
    IF p > Len(text) THEN None
    ELSE LET q == LineEnd(text, p)
             has == \E k \in p..(q - 1) : text[k] = kw
             m == FirstDigits(text, p, q)
         IN  IF has /\ m # None THEN m ELSE LineScan(text, q + 1, kw)

\* an extractor that scans the lines before it tries the built-in pattern
extract_keyword_number_ScanFirst(html, keyword) ==
    LET text == Normalize(html)
        m1 == SearchPattern(text, 1, keyword)
        m2 == SearchPattern(text, 1, "A")
        m3 == LineScan(text, 1, keyword)
    IN  IF m1 # None THEN m1
        ELSE IF m3 # None THEN m3
        ELSE m2

extract_keyword_number(html, keyword) ==
    LET text == Normalize(html)
        m1 == SearchPattern(text, 1, keyword)
        m2 == SearchPattern(text, 1, "A")
    IN  IF m1 # None THEN m1
        ELSE IF m2 # None THEN m2
        ELSE LineScan(text, 1, keyword)

SupportedOps == {">", ">=", "==", "!=", "<", "<="}

\* a comparison that reads ">=" as ">"
eval_condition_Strict(value, op, rhs) ==
    IF op \in {">", ">="} THEN Return(value > rhs)
    ELSE IF op = "==" THEN Return(value = rhs)
    ELSE IF op = "!=" THEN Return(value # rhs)
    ELSE IF op = "<" THEN Return(value < rhs)
    ELSE IF op = "<=" THEN Return(value <= rhs)
    ELSE Raise("ValueError")

eval_condition(value, op, rhs) ==
    IF op = ">" THEN Return(value > rhs)
    ELSE IF op = ">=" THEN Return(value >= rhs)
    ELSE IF op = "==" THEN Return(value = rhs)
    ELSE IF op = "!=" THEN Return(value # rhs)
    ELSE IF op = "<" THEN Return(value < rhs)
    ELSE IF op = "<=" THEN Return(value <= rhs)
    ELSE Raise("ValueError")

WatchResult(value, available, error) ==
    [value |-> value, available |-> available, error |-> error]

\* a success that leaves 'available' unset
SuccessResult_NoAvailable(value, available) == WatchResult(Some(value), None, None)

\* line 131
SuccessResult(value, available) == WatchResult(Some(value), Some(available), None)

\* lines 124, 127, 134, 136
ErrorResult(message) == WatchResult(None, None, Some(message))

\* fetch_html(url): the page, or requests.RequestException
FetchFailed == [ok |-> FALSE]

Fetched(html) == [ok |-> TRUE, html |-> html]

fetch_html(fetch) == IF fetch.ok THEN Return(fetch.html) ELSE Raise("RequestException")

DefaultCondition == [op |-> ">", value |-> 0]

\* the try block of get_watch_result: a WatchResult, or the exception raised in it
GetWatchResultBody(watch, fetch) ==
    LET html == fetch_html(fetch)
        extract == Get(watch, "extract", EmptyDict)
        keyword == Get(extract, "keyword", DefaultKeyword)
        value == extract_keyword_number(html.val, keyword)
        cond == Get(watch, "condition", DefaultCondition)
        available == eval_condition(value[1], cond["op"], cond["value"])
    IN  IF html.kind = "raise" THEN html
        ELSE IF GetOpt(extract, "type") # Some("keyword_number")
             THEN Return(ErrorResult("Unsupported extract type"))
        ELSE IF value = None
             THEN Return(ErrorResult("Could not extract availability number"))
        ELSE IF "op" \notin DOMAIN cond THEN Raise("KeyError")
        ELSE IF available.kind = "raise" THEN available
        ELSE Return(SuccessResult(value[1], available.val))

\* handlers that catch only the transport failure
GetWatchResultHandlers_RequestOnly(r) ==
    IF r.kind = "return" THEN r
    ELSE IF r.exc = "RequestException" THEN Return(ErrorResult("Request error"))
    ELSE r

\* the except clauses of get_watch_result
GetWatchResultHandlers(r) ==
    IF r.kind = "return" THEN r
    ELSE IF r.exc = "RequestException"
         THEN Return(ErrorResult("Request error"))
    ELSE Return(ErrorResult("Unexpected error"))

get_watch_result(watch, fetch) == GetWatchResultHandlers(GetWatchResultBody(watch, fetch))

(***************************************************************************)
(* Watches.  A watch is a dict read from watchlist.yml.                    *)
(***************************************************************************)
PageUrl == "https://site/page"

KeywordNumber == [type |-> "keyword_number", keyword |-> "A"]

\* mode and enabled omitted: both defaults apply
WatchDefault(id) == [id |-> id, url |-> PageUrl, extract |-> KeywordNumber]

WatchOnce(id) ==
    [id |-> id, label |-> "Course", url |-> PageUrl, enabled |-> TRUE, mode |-> "Once",
     extract |-> KeywordNumber]

WatchAlways(id) ==
    [id |-> id, label |-> "Course", url |-> PageUrl, enabled |-> TRUE, mode |-> "always",
     extract |-> KeywordNumber]

WatchDisabled(id) ==
    [id |-> id, label |-> "Course", url |-> PageUrl, enabled |-> FALSE, mode |-> "always",
     extract |-> KeywordNumber]

WatchNoUrl(id) == [id |-> id, enabled |-> TRUE, mode |-> "once", extract |-> KeywordNumber]

WatchNoId(id) == [url |-> PageUrl, enabled |-> TRUE, mode |-> "once", extract |-> KeywordNumber]

WatchEmptyUrl(id) ==
    [id |-> id, url |-> "", enabled |-> TRUE, mode |-> "always", extract |-> KeywordNumber]

WatchEmptyId(id) ==
    [id |-> "", url |-> PageUrl, enabled |-> TRUE, mode |-> "always", extract |-> KeywordNumber]

WatchKinds(id) ==
    {WatchDefault(id), WatchOnce(id), WatchAlways(id), WatchDisabled(id), WatchNoUrl(id),
     WatchNoId(id), WatchEmptyUrl(id), WatchEmptyId(id)}

\* the watch lists explored: none, one or two watches, with distinct ids
WatchLists ==
    {<<>>} \cup {<<a>> : a \in WatchKinds("a")}
           \cup {<<a, b>> : a \in WatchKinds("a"), b \in WatchKinds("b")}

\* what a fetch of a watched page can yield
FetchOutcomes ==
    {FetchFailed, Fetched(<<"A", ":", " ", "1">>), Fetched(<<"A", ":", " ", "0">>),
     Fetched(<<"x">>)}

\* what the tracker's API can do with a dispatch: serve it, or fail a request
ApiOutcomes == {"ok", "error"}

\* str.lower() on the mode strings
Lower(s) == IF s \in {"Once", "ONCE"} THEN "once" ELSE s

\* the run number stands for utc_now_iso()
MaxRuns == 3

(***************************************************************************)
(* One run of main(), as a process record.                                 *)
(*   pc: "idle" (not started), "loop" (top of the for loop, watch i next), *)
(*       "notify" (line 255, triggered), "sleep" (line 232 or 272),        *)
(*       "done" (returned), "crashed" (an exception left main()).          *)
(* fetched, requests, posted, sleeps, checked, wrote_*, exit record what   *)
(* the run did to the outside world.                                       *)
(***************************************************************************)
Idle ==
    [pc |-> "idle", watches |-> <<>>, state |-> EmptyDict, state_changed |-> FALSE,
     watchlist_changed |-> FALSE, i |-> 1, repo |-> FALSE, token |-> FALSE, now |-> 0,
     prev_available |-> None, prev_value |-> None, res |-> None, triggered |-> FALSE,
     fetched |-> <<>>, checked |-> EmptyDict, requests |-> 0, posted |-> {}, sleeps |-> 0,
     wrote_watchlist |-> None, wrote_state |-> None, exit |-> None]

\* lines 189-202
Start(watchlist, stored, repo, token, now) ==
    IF watchlist = <<>>
    THEN [Idle EXCEPT !.pc = "done", !.exit = Some(0), !.now = now]
    ELSE [Idle EXCEPT !.pc = "loop", !.watches = watchlist, !.state = stored,
                      !.repo = repo, !.token = token, !.now = now]

AtWatch(p) == p.pc = "loop" /\ p.i <= Len(p.watches)

Enabled(w) == Get(w, "enabled", TRUE)

\* a validation that rejects a missing id or url but accepts an empty one
Invalid_MissingOnly(w) == GetOpt(w, "id") = None \/ GetOpt(w, "url") = None

\* line 212: not wid or not url
Invalid(w) == GetOpt(w, "id") \in {None, Some("")} \/ GetOpt(w, "url") \in {None, Some("")}

\* a skip that still refreshes the entry of the watch it passes over
SkipDisabled_Touches(p) ==
    LET w == p.watches[p.i]
    IN  IF Invalid(w) THEN [p EXCEPT !.i = p.i + 1]
        ELSE [p EXCEPT !.i = p.i + 1, !.state_changed = TRUE,
                       !.state = Put(p.state, w["id"],
                                     Put(Get(p.state, w["id"], EmptyDict), "last_checked_utc", p.now))]

\* line 209
Label(w) == Get(w, "label", Get(w, "id", "Unnamed watch"))

CanSkipDisabled(p) == AtWatch(p) /\ ~Enabled(p.watches[p.i])

\* lines 205-206
SkipDisabled(p) == [p EXCEPT !.i = p.i + 1]

CanSkipInvalid(p) == AtWatch(p) /\ Enabled(p.watches[p.i]) /\ Invalid(p.watches[p.i])

\* lines 212-214
SkipInvalid(p) == [p EXCEPT !.i = p.i + 1]

\* a loop that checks a watch without looking at 'enabled'
CanCheck_IgnoresEnabled(p) == AtWatch(p) /\ ~Invalid(p.watches[p.i])

CanCheck(p) == AtWatch(p) /\ Enabled(p.watches[p.i]) /\ ~Invalid(p.watches[p.i])

\* a trigger that fires only on a recorded false, not on a missing record
Triggered_RecordedOnly(prev_available, res) ==
    prev_available = Some(FALSE) /\ res.available = Some(TRUE)

\* line 241
Triggered(prev_available, res) ==
    (prev_available = Some(FALSE) \/ prev_available = None) /\ res.available = Some(TRUE)

\* lines 223-226
TouchEntry(state, wid, w, now) ==
    LET e == Get(state, wid, EmptyDict)
    IN  Put(Put(Put(e, "last_checked_utc", now), "label", Label(w)), "url", w["url"])

\* a failure that forgets whether the watch was available
ErrorEntry_ForgetsAvailable(e, res) == Put(Pop(e, "available"), "error", res.error[1])

\* a failure that wipes the last known reading
ErrorEntry_Wipes(e, res) == Put(Pop(Pop(e, "value"), "available"), "error", res.error[1])

\* line 230: the entry after a failed check
ErrorEntry(e, res) == Put(e, "error", res.error[1])

\* a success that leaves an earlier 'error' in the entry
SuccessEntry_KeepsError(e, res) ==
    Put(Put(e, "value", res.value[1]), "available", res.available[1])

\* a success that does not record 'available'
SuccessEntry_NoAvailable(e, res) == Pop(Put(e, "value", res.value[1]), "error")

\* lines 236-238: the entry after a successful check
SuccessEntry(e, res) ==
    Pop(Put(Put(e, "value", res.value[1]), "available", res.available[1]), "error")

\* a check whose error branch goes on to the next watch without the delay
Check_NoDelayAfterError(p, fetch) ==
    LET w == p.watches[p.i]
        wid == w["id"]
        res == get_watch_result(w, fetch).val
        prev == Get(p.state, wid, EmptyDict)
        prev_available == GetOpt(prev, "available")
        prev_value == GetOpt(prev, "value")
        e == TouchEntry(p.state, wid, w, p.now)
        triggered == Triggered(prev_available, res)
        seen == [p EXCEPT !.fetched = Append(p.fetched, wid), !.res = Some(res),
                          !.prev_available = prev_available, !.prev_value = prev_value,
                          !.state_changed = TRUE]
    IN  IF res.error # None
        THEN [seen EXCEPT !.state = Put(p.state, wid, ErrorEntry(e, res)),
                          !.triggered = FALSE,
                          !.checked = Put(p.checked, wid, [res |-> res, triggered |-> FALSE]),
                          !.pc = "loop", !.i = p.i + 1]
        ELSE [seen EXCEPT !.state = Put(p.state, wid, SuccessEntry(e, res)),
                          !.triggered = triggered,
                          !.checked = Put(p.checked, wid, [res |-> res, triggered |-> triggered]),
                          !.pc = IF triggered THEN "notify" ELSE "sleep"]

\* lines 216-241 (and the print-only branch 266-270)
Check(p, fetch) ==
    LET w == p.watches[p.i]
        wid == w["id"]
        res == get_watch_result(w, fetch).val
        prev == Get(p.state, wid, EmptyDict)
        prev_available == GetOpt(prev, "available")
        prev_value == GetOpt(prev, "value")
        e == TouchEntry(p.state, wid, w, p.now)
        triggered == Triggered(prev_available, res)
        seen == [p EXCEPT !.fetched = Append(p.fetched, wid), !.res = Some(res),
                          !.prev_available = prev_available, !.prev_value = prev_value,
                          !.state_changed = TRUE]
    IN  IF res.error # None
        THEN [seen EXCEPT !.state = Put(p.state, wid, ErrorEntry(e, res)),
                          !.triggered = FALSE,
                          !.checked = Put(p.checked, wid, [res |-> res, triggered |-> FALSE]),
                          !.pc = "sleep"]
        ELSE [seen EXCEPT !.state = Put(p.state, wid, SuccessEntry(e, res)),
                          !.triggered = triggered,
                          !.checked = Put(p.checked, wid, [res |-> res, triggered |-> triggered]),
                          !.pc = IF triggered THEN "notify" ELSE "sleep"]

\* a mode compared without .lower()
Mode_CaseSensitive(w) ==
    LET m == GetOpt(w, "mode")
    IN  IF m \in {None, Some("")} THEN "once" ELSE m[1]

\* line 261
Mode(w) ==
    LET m == GetOpt(w, "mode")
    IN  Lower(IF m \in {None, Some("")} THEN "once" ELSE m[1])

\* an auto-disable that a local run (no repository) skips
AutoDisable_OnlyWhenNotified(p) ==
    IF Mode(p.watches[p.i]) = "once" /\ p.repo
    THEN [p EXCEPT !.watches[p.i] = Put(p.watches[p.i], "enabled", FALSE),
                   !.watchlist_changed = TRUE, !.pc = "sleep"]
    ELSE [p EXCEPT !.pc = "sleep"]

\* lines 261-265
AutoDisable(p) ==
    IF Mode(p.watches[p.i]) = "once"
    THEN [p EXCEPT !.watches[p.i] = Put(p.watches[p.i], "enabled", FALSE),
                   !.watchlist_changed = TRUE, !.pc = "sleep"]
    ELSE [p EXCEPT !.pc = "sleep"]

\* a dispatch that is skipped, not fatal, when the token is missing
CreateOrCommentIssue_SkipsWithoutToken(p, api) ==
    IF ~p.token THEN p
    ELSE IF api = "error" THEN [p EXCEPT !.pc = "crashed", !.requests = p.requests + 1]
    ELSE [p EXCEPT !.requests = p.requests + 2,
                   !.posted = p.posted \cup {p.watches[p.i]["id"]}]

\* lines 139-185: create_or_comment_issue, whose first act is github_api_headers()
CreateOrCommentIssue(p, api) ==
    IF ~p.token THEN [p EXCEPT !.pc = "crashed"]
    ELSE IF api = "error" THEN [p EXCEPT !.pc = "crashed", !.requests = p.requests + 1]
    ELSE [p EXCEPT !.requests = p.requests + 2,
                   !.posted = p.posted \cup {p.watches[p.i]["id"]}]

CanDispatch(p) == p.pc = "notify"

\* lines 243-265
Dispatch(p, api) ==
    LET q == IF p.repo THEN CreateOrCommentIssue(p, api) ELSE p
    IN  IF q.pc = "crashed" THEN q ELSE AutoDisable(q)

CanSleep(p) == p.pc = "sleep"

\* a delay after which the same watch is taken again
Sleep_Retries(p) == [p EXCEPT !.pc = "loop", !.sleeps = p.sleeps + 1]

\* lines 232-233 and 272
Sleep(p) == [p EXCEPT !.pc = "loop", !.i = p.i + 1, !.sleeps = p.sleeps + 1]

CanFinish(p) == p.pc = "loop" /\ p.i > Len(p.watches)

\* an end of run that writes both files whether or not anything changed
Finish_AlwaysWrites(p) ==
    [p EXCEPT !.wrote_watchlist = Some(p.watches), !.wrote_state = Some(p.state),
              !.pc = "done", !.exit = Some(0)]

\* lines 274-280
Finish(p) ==
    [p EXCEPT !.wrote_watchlist = IF p.watchlist_changed THEN Some(p.watches) ELSE None,
              !.wrote_state = IF p.state_changed THEN Some(p.state) ELSE None,
              !.pc = "done", !.exit = Some(0)]

\* watchlist.yml and state.json after the run's writes
WatchlistAfter(p, disk) == IF p.wrote_watchlist # None THEN p.wrote_watchlist[1] ELSE disk

StateAfter(p, disk) == IF p.wrote_state # None THEN p.wrote_state[1] ELSE disk

(***************************************************************************)
(* The state.                                                              *)
(*   diskWatches, diskState: watchlist.yml ("watches") and state.json      *)
(*   run: the process executing main()                                     *)
(*   dry: a second process given the same files, fetches and token but no  *)
(*        GITHUB_REPOSITORY (used by SpecPair only)                        *)
(*   start: the two files as they were when the current run began          *)
(*   runs: the number of runs begun                                        *)
(*   posts: per watch id, the notifications the tracker received so far    *)
(*   prevChecked: the checks of the latest completed run                   *)
(*   ev: an evaluation of a pure function and its arguments (SpecEval:     *)
(*       get_watch_result, SpecExtract: extract_keyword_number, SpecCond:  *)
(*       eval_condition)                                                   *)
(***************************************************************************)
VARIABLES diskWatches, diskState, run, dry, start, runs, posts, prevChecked, ev

vars == <<diskWatches, diskState, run, dry, start, runs, posts, prevChecked, ev>>

Ids == {"a", "b"}

NoEval == [watch |-> EmptyDict, fetch |-> FetchFailed, out |-> None]

Init ==
    /\ diskWatches \in WatchLists
    /\ diskState = EmptyDict
    /\ run = Idle
    /\ dry = Idle
    /\ start = [watches |-> diskWatches, state |-> diskState]
    /\ runs = 0
    /\ posts = [id \in Ids |-> 0]
    /\ prevChecked = EmptyDict
    /\ ev = NoEval

Resting(p) == p.pc \in {"idle", "done", "crashed"}

\* the tracker's count after process q took a step from p
Posted(p, q) == [id \in Ids |-> posts[id] + IF id \in q.posted \ p.posted THEN 1 ELSE 0]

StartRun ==
    /\ Resting(run)
    /\ runs < MaxRuns
    /\ \E repo \in BOOLEAN, token \in BOOLEAN :
          run' = Start(diskWatches, diskState, repo, token, runs + 1)
    /\ runs' = runs + 1
    /\ start' = [watches |-> diskWatches, state |-> diskState]
    /\ UNCHANGED <<diskWatches, diskState, dry, posts, prevChecked, ev>>

SkipDisabledWatch ==
    /\ CanSkipDisabled(run)
    /\ run' = SkipDisabled(run)
    /\ UNCHANGED <<diskWatches, diskState, dry, start, runs, posts, prevChecked, ev>>

SkipInvalidWatch ==
    /\ CanSkipInvalid(run)
    /\ run' = SkipInvalid(run)
    /\ UNCHANGED <<diskWatches, diskState, dry, start, runs, posts, prevChecked, ev>>

CheckWatch ==
    /\ CanCheck(run)
    /\ \E fetch \in FetchOutcomes : run' = Check(run, fetch)
    /\ UNCHANGED <<diskWatches, diskState, dry, start, runs, posts, prevChecked, ev>>

DispatchNotification ==
    /\ CanDispatch(run)
    /\ \E api \in ApiOutcomes : run' = Dispatch(run, api)
    /\ posts' = Posted(run, run')
    /\ UNCHANGED <<diskWatches, diskState, dry, start, runs, prevChecked, ev>>

SleepDelay ==
    /\ CanSleep(run)
    /\ run' = Sleep(run)
    /\ UNCHANGED <<diskWatches, diskState, dry, start, runs, posts, prevChecked, ev>>

FinishRun ==
    /\ CanFinish(run)
    /\ run' = Finish(run)
    /\ diskWatches' = WatchlistAfter(run', diskWatches)
    /\ diskState' = StateAfter(run', diskState)
    /\ prevChecked' = run.checked
    /\ UNCHANGED <<dry, start, runs, posts, ev>>

Next ==
    \/ StartRun
    \/ SkipDisabledWatch
    \/ SkipInvalidWatch
    \/ CheckWatch
    \/ DispatchNotification
    \/ SleepDelay
    \/ FinishRun

Spec == Init /\ [][Next]_vars

(***************************************************************************)
(* SpecPair: two runs of main() side by side on the same files, fetch      *)
(* outcomes and token; run has GITHUB_REPOSITORY set, dry has not.  dry    *)
(* never calls the tracker, so it never stops early; run takes each step   *)
(* with it until it crashes.  The files are those run writes.              *)
(***************************************************************************)
PairStart ==
    /\ Resting(run) /\ Resting(dry)
    /\ runs < MaxRuns
    /\ \E token \in BOOLEAN :
          /\ run' = Start(diskWatches, diskState, TRUE, token, runs + 1)
          /\ dry' = Start(diskWatches, diskState, FALSE, token, runs + 1)
    /\ runs' = runs + 1
    /\ start' = [watches |-> diskWatches, state |-> diskState]
    /\ UNCHANGED <<diskWatches, diskState, posts, prevChecked, ev>>

PairSkipDisabled ==
    /\ CanSkipDisabled(dry)
    /\ dry' = SkipDisabled(dry)
    /\ run' = IF CanSkipDisabled(run) THEN SkipDisabled(run) ELSE run
    /\ UNCHANGED <<diskWatches, diskState, start, runs, posts, prevChecked, ev>>

PairSkipInvalid ==
    /\ CanSkipInvalid(dry)
    /\ dry' = SkipInvalid(dry)
    /\ run' = IF CanSkipInvalid(run) THEN SkipInvalid(run) ELSE run
    /\ UNCHANGED <<diskWatches, diskState, start, runs, posts, prevChecked, ev>>

PairCheck ==
    /\ CanCheck(dry)
    /\ \E fetch \in FetchOutcomes :
          /\ dry' = Check(dry, fetch)
          /\ run' = IF CanCheck(run) THEN Check(run, fetch) ELSE run
    /\ UNCHANGED <<diskWatches, diskState, start, runs, posts, prevChecked, ev>>

PairDispatch ==
    /\ CanDispatch(dry)
    /\ \E api \in ApiOutcomes :
          /\ dry' = Dispatch(dry, api)
          /\ run' = IF CanDispatch(run) THEN Dispatch(run, api) ELSE run
    /\ posts' = Posted(run, run')
    /\ UNCHANGED <<diskWatches, diskState, start, runs, prevChecked, ev>>

PairSleep ==
    /\ CanSleep(dry)
    /\ dry' = Sleep(dry)
    /\ run' = IF CanSleep(run) THEN Sleep(run) ELSE run
    /\ UNCHANGED <<diskWatches, diskState, start, runs, posts, prevChecked, ev>>

PairFinish ==
    /\ CanFinish(dry)
    /\ dry' = Finish(dry)
    /\ run' = IF CanFinish(run) THEN Finish(run) ELSE run
    /\ diskWatches' = WatchlistAfter(run', diskWatches)
    /\ diskState' = StateAfter(run', diskState)
    /\ prevChecked' = IF CanFinish(run) THEN run.checked ELSE prevChecked
    /\ UNCHANGED <<start, runs, posts, ev>>

NextPair ==
    \/ PairStart
    \/ PairSkipDisabled
    \/ PairSkipInvalid
    \/ PairCheck
    \/ PairDispatch
    \/ PairSleep
    \/ PairFinish

SpecPair == Init /\ [][NextPair]_vars

(***************************************************************************)
(* SpecEval: get_watch_result applied to a watch and a fetch outcome.      *)
(***************************************************************************)
EvalExtracts ==
    {KeywordNumber, [type |-> "keyword_number"], [type |-> "keyword_number", keyword |-> "S"],
     [type |-> "css_selector", keyword |-> "A"], [keyword |-> "A"]}

EvalConditions ==
    {[op |-> o, value |-> v] : o \in SupportedOps \cup {"=>"}, v \in {0, 1}} \cup {[value |-> 0]}

EvalWatches ==
    {[url |-> PageUrl]}
    \cup {[url |-> PageUrl, extract |-> e] : e \in EvalExtracts}
    \cup {[url |-> PageUrl, extract |-> e, condition |-> c] : e \in EvalExtracts, c \in EvalConditions}

EvalPages ==
    {<<"A", ":", " ", "1">>, <<"A", ":", " ", "0">>, <<"S", "#", "2">>, <<"x">>,
     <<"<>", "A", "<>", ":", "1", "0", "<>">>, <<"S", " ", "x", " ", "2", "\n", "1">>}

EvalFetches == {FetchFailed} \cup {Fetched(h) : h \in EvalPages}

InitEval ==
    /\ diskWatches = <<>>
    /\ diskState = EmptyDict
    /\ run = Idle
    /\ dry = Idle
    /\ start = [watches |-> <<>>, state |-> EmptyDict]
    /\ runs = 0
    /\ posts = [id \in Ids |-> 0]
    /\ prevChecked = EmptyDict
    /\ \E w \in EvalWatches, f \in EvalFetches : ev = [watch |-> w, fetch |-> f, out |-> None]

Evaluate ==
    /\ ev.out = None
    /\ ev' = [ev EXCEPT !.out = Some(get_watch_result(ev.watch, ev.fetch))]
    /\ UNCHANGED <<diskWatches, diskState, run, dry, start, runs, posts, prevChecked>>

NextEval == Evaluate

SpecEval == InitEval /\ [][NextEval]_vars

(***************************************************************************)
(* Vocabulary of the properties.                                           *)
(***************************************************************************)
Started == run.pc # "idle"

\* the state entry of watch id in a state dict, {} when there is none
EntryOf(state, id) == Get(state, id, EmptyDict)

\* the ids the run has checked with a successful / a failed result
Succeeded == {id \in DOMAIN run.checked : run.checked[id].res.error = None}

Failed == {id \in DOMAIN run.checked : run.checked[id].res.error # None}

\* how often the run fetched the page of watch id
Fetches(p, id) == Cardinality({k \in 1..Len(p.fetched) : p.fetched[k] = id})

EntryFields == {"last_checked_utc", "label", "url", "value", "available", "error"}

\* the watch of the list that carries id
\* a watch whose mode is 'once' in any letter case, or omitted
IsOnce(w) == GetOpt(w, "mode") \in {None, Some(""), Some("once"), Some("Once"), Some("ONCE")}

WatchOf(watchlist, id) ==
    watchlist[CHOOSE k \in 1..Len(watchlist) : GetOpt(watchlist[k], "id") = Some(id)]

(***************************************************************************)
(* C1: every successful check of a run triggers exactly when the           *)
(* 'available' stored for that watch when the run began is false or        *)
(* missing and the result is available; only a triggered watch reaches the *)
(* dispatch, and only a triggered watch is notified.                       *)
(***************************************************************************)
C1_TriggerIffTransition ==
    /\ \A id \in Succeeded :
          LET before == GetOpt(EntryOf(start.state, id), "available")
              c == run.checked[id]
          IN  c.triggered <=> (before \in {None, Some(FALSE)} /\ c.res.available = Some(TRUE))
    /\ run.pc = "notify" => run.watches[run.i]["id"] \in Succeeded
                            /\ run.checked[run.watches[run.i]["id"]].triggered
    /\ \A id \in run.posted : id \in Succeeded /\ run.checked[id].triggered

\* a first-ever check (no state entry) that finds the watch available and triggers
C1_FirstCheckTriggers ==
    \E id \in Succeeded :
        /\ id \notin DOMAIN start.state
        /\ run.checked[id].res.available = Some(TRUE)
        /\ run.checked[id].triggered

(***************************************************************************)
(* C2: across two consecutive completed runs (state saved by the first,    *)
(* reloaded by the second) that both check a watch: false then true        *)
(* triggers, true then true does not, and a run checks a watch once.       *)
(***************************************************************************)
C2_EdgeFiresOnce ==
    run.pc \in {"loop", "notify", "sleep", "crashed"} =>
        \A id \in Succeeded \cap DOMAIN prevChecked :
            LET c == run.checked[id]
                q == prevChecked[id]
            IN  /\ Fetches(run, id) = 1
                /\ (q.res.available = Some(FALSE) /\ c.res.available = Some(TRUE)) => c.triggered
                /\ (q.res.available = Some(TRUE) /\ c.res.available = Some(TRUE)) => ~c.triggered

\* a watch that fired in the previous completed run and is available again
C2_SecondRunStillAvailable ==
    /\ run.pc = "sleep"
    /\ \E id \in Succeeded \cap DOMAIN prevChecked :
          /\ prevChecked[id].triggered
          /\ run.checked[id].res.available = Some(TRUE)
          /\ ~run.checked[id].triggered

(***************************************************************************)
(* C3: the tracker receives at most one notification for a watch whose     *)
(* mode is 'once' (or omitted), over all runs, completed or aborted.       *)
(***************************************************************************)
C3_OnceNotifiedAtMostOnce ==
    \A id \in Ids :
        (\E k \in 1..Len(diskWatches) :
            /\ GetOpt(diskWatches[k], "id") = Some(id)
            /\ IsOnce(diskWatches[k]))
        => posts[id] <= 1

(***************************************************************************)
(* C4 (as amended): a failed check triggers nothing and notifies nobody;   *)
(* the entry's 'value' and 'available' stay as they were stored (or stay   *)
(* missing), in memory and in the file the run writes; the fields that may *)
(* change are 'error', 'last_checked_utc' and the copies 'label' and       *)
(* 'url', which are rewritten from the watch.                              *)
(***************************************************************************)
C4_ErrorKeepsReading ==
    \A id \in Failed :
        LET old == EntryOf(start.state, id)
            new == run.state[id]
            w == WatchOf(start.watches, id)
        IN  /\ ~run.checked[id].triggered
            /\ id \notin run.posted
            /\ \A f \in {"value", "available"} : GetOpt(new, f) = GetOpt(old, f)
            /\ DOMAIN new \subseteq EntryFields
            /\ new["error"] = run.checked[id].res.error[1]
            /\ new["last_checked_utc"] = run.now
            /\ new["label"] = Label(w) /\ new["url"] = w["url"]
            /\ run.pc = "done" =>
                  \A f \in {"value", "available"} :
                      GetOpt(EntryOf(diskState, id), f) = GetOpt(old, f)

\* C4 as stated: on a failed check only 'error' and 'last_checked_utc' change
C4_OnlyErrorAndTimestampChange ==
    \A id \in Failed :
        \A f \in EntryFields \ {"error", "last_checked_utc"} :
            GetOpt(run.state[id], f) = GetOpt(EntryOf(start.state, id), f)

\* a failed check of a watch whose last reading is on record
C4_ErrorAfterReading ==
    \E id \in Failed :
        /\ "available" \in DOMAIN EntryOf(start.state, id)
        /\ run.pc = "done"

(***************************************************************************)
(* C5: a watch the list holds with enabled = false is never fetched,       *)
(* checked or notified in the run, its state entry is neither created nor  *)
(* modified, and a list of disabled watches alone causes no write.         *)
(***************************************************************************)
DisabledAtStart == {k \in 1..Len(start.watches) : ~Enabled(start.watches[k])}

C5_DisabledSkipped ==
    Started =>
        /\ \A k \in DisabledAtStart :
              LET id == start.watches[k]["id"]
              IN  /\ Fetches(run, id) = 0
                  /\ id \notin DOMAIN run.checked
                  /\ id \notin run.posted
                  /\ run.watches # <<>> => GetOpt(run.state, id) = GetOpt(start.state, id)
                  /\ run.pc = "done" => GetOpt(diskState, id) = GetOpt(start.state, id)
        /\ DisabledAtStart = 1..Len(start.watches) =>
              /\ ~run.state_changed /\ ~run.watchlist_changed
              /\ run.wrote_state = None /\ run.wrote_watchlist = None
              /\ run.requests = 0
              /\ diskState = start.state /\ diskWatches = start.watches

\* a finished run that skipped a disabled watch and checked another one
C5_SkippedBesideChecked ==
    /\ run.pc = "done"
    /\ DisabledAtStart # {}
    /\ run.fetched # <<>>
    /\ run.wrote_state # None

(***************************************************************************)
(* C6: a result returned by get_watch_result has either value and          *)
(* available set and error unset, or error set and the other two unset.    *)
(***************************************************************************)
C6_ResultIsValueOrError ==
    ev.out # None /\ ev.out[1].kind = "return" =>
        LET r == ev.out[1].val
        IN  \/ r.value # None /\ r.available # None /\ r.error = None
            \/ r.error # None /\ r.value = None /\ r.available = None

\* an evaluation that returned a value and an availability
C6_ValueReturned ==
    /\ ev.out # None
    /\ ev.out[1].kind = "return"
    /\ ev.out[1].val.value # None
    /\ ev.out[1].val.available = Some(FALSE)

(***************************************************************************)
(* C7: get_watch_result always returns, and names each failure: a failed   *)
(* fetch is a 'Request error'; after a fetch, a type other than            *)
(* 'keyword_number' is 'Unsupported extract type'; then no number is       *)
(* 'Could not extract availability number'; then an operator outside the   *)
(* six is 'Unexpected error'.                                              *)
(***************************************************************************)
C7_FailuresAreClassified ==
    ev.out # None =>
        LET w == ev.watch
            extract == Get(w, "extract", EmptyDict)
            typed == GetOpt(extract, "type") = Some("keyword_number")
            number == extract_keyword_number(ev.fetch.html, Get(extract, "keyword", "A"))
            cond == Get(w, "condition", DefaultCondition)
            error == ev.out[1].val.error
        IN  /\ ev.out[1].kind = "return"
            /\ ~ev.fetch.ok => error = Some("Request error")
            /\ ev.fetch.ok /\ ~typed => error = Some("Unsupported extract type")
            /\ ev.fetch.ok /\ typed /\ number = None =>
                  error = Some("Could not extract availability number")
            /\ ev.fetch.ok /\ typed /\ number # None /\ GetOpt(cond, "op") \notin {Some(o) : o \in SupportedOps} =>
                  error = Some("Unexpected error")
            /\ ev.fetch.ok /\ typed /\ number # None /\ GetOpt(cond, "op") \in {Some(o) : o \in SupportedOps} =>
                  error = None

\* an unsupported operator reported as an unexpected error
C7_BadOperatorWrapped ==
    /\ ev.out # None
    /\ GetOpt(Get(ev.watch, "condition", DefaultCondition), "op") = Some("=>")
    /\ ev.out[1].kind = "return"
    /\ ev.out[1].val.error = Some("Unexpected error")

(***************************************************************************)
(* C8 (as amended): in a run that reaches its end, a watch's 'enabled' is  *)
(* set to false exactly when the watch triggered in this run and its mode  *)
(* is 'once' in any letter case or omitted, and the watch list is written  *)
(* iff some watch was so disabled.  In a run a failed dispatch aborts, the *)
(* watch whose dispatch failed is not disabled and nothing is written.     *)
(***************************************************************************)
\* the positions of the watch list whose watch the run has modified
Modified == {k \in 1..Len(run.watches) : run.watches[k] # start.watches[k]}

\* the positions whose watch triggered in this run and is a once-mode watch
TriggeredOnce ==
    {k \in 1..Len(run.watches) :
        /\ IsOnce(start.watches[k])
        /\ \E id \in DOMAIN run.checked :
              GetOpt(start.watches[k], "id") = Some(id) /\ run.checked[id].triggered}

C8_AutoDisableIffTriggeredOnce ==
    /\ \A k \in Modified : run.watches[k] = Put(start.watches[k], "enabled", FALSE)
    /\ run.pc \in {"loop", "sleep", "done"} => Modified = TriggeredOnce
    /\ run.pc \in {"notify", "crashed"} => Modified = TriggeredOnce \ {run.i}
    /\ run.pc = "done" /\ run.watches # <<>> =>
          /\ run.wrote_watchlist # None <=> Modified # {}
          /\ diskWatches = run.watches
    /\ run.pc # "done" => run.wrote_watchlist = None /\ diskWatches = start.watches

\* C8 as stated, for any run that has ended
C8_AsStated ==
    Resting(run) /\ run.watches # <<>> =>
        /\ Modified = TriggeredOnce
        /\ run.wrote_watchlist # None <=> Modified # {}

\* a finished run that disabled a watch whose mode is spelt 'Once' and wrote the list
C8_OnceDisabledAndWritten ==
    /\ run.pc = "done"
    /\ \E k \in Modified : GetOpt(start.watches[k], "mode") = Some("Once")
    /\ \E id \in DOMAIN run.checked :
          /\ ~IsOnce(WatchOf(start.watches, id))
          /\ run.checked[id].triggered
    /\ run.wrote_watchlist # None

(***************************************************************************)
(* C9 (as amended): a run without the repository identifier calls the      *)
(* tracker never, and ends with the same state entries, the same disabled  *)
(* watches and the same writes as a run with the identifier on the same    *)
(* files and fetch outcomes, provided that run is not aborted by a failed  *)
(* dispatch.                                                               *)
(***************************************************************************)
C9_DryRunSameOutcome ==
    /\ dry.requests = 0 /\ dry.posted = {} /\ dry.pc # "crashed"
    /\ run.pc # "crashed" =>
          /\ dry.pc = run.pc /\ dry.i = run.i
          /\ dry.state = run.state
          /\ dry.watches = run.watches
          /\ dry.state_changed = run.state_changed
          /\ dry.watchlist_changed = run.watchlist_changed
          /\ dry.wrote_state = run.wrote_state
          /\ dry.wrote_watchlist = run.wrote_watchlist
          /\ dry.exit = run.exit

\* C9 as stated: whenever the run without the identifier has ended, the
\* run with the identifier has ended with the same state, watches and writes
C9_AsStated ==
    dry.pc = "done" =>
        /\ dry.state = run.state
        /\ dry.watches = run.watches
        /\ dry.wrote_state = run.wrote_state
        /\ dry.wrote_watchlist = run.wrote_watchlist

\* both runs finished, the one with the identifier having notified, and
\* both disabled the watch and wrote both files
C9_BothFinishedAfterTrigger ==
    /\ dry.pc = "done" /\ run.pc = "done"
    /\ run.posted # {}
    /\ dry.wrote_watchlist # None
    /\ dry.wrote_state # None

(***************************************************************************)
(* C10: with the repository identifier set and the token missing, a        *)
(* trigger ends the run at the dispatch: the run never gets past the       *)
(* triggering watch, and once it has crashed no request was sent, no later *)
(* watch was fetched, the triggering watch is still enabled and both files *)
(* are as they were when the run began.                                    *)
(***************************************************************************)
C10_MissingTokenAborts ==
    run.repo /\ ~run.token =>
        /\ \A id \in DOMAIN run.checked :
              run.checked[id].triggered =>
                  /\ run.pc \in {"notify", "crashed"}
                  /\ run.watches[run.i]["id"] = id
        /\ run.pc = "crashed" =>
              /\ run.requests = 0 /\ run.posted = {}
              /\ Len(run.fetched) >= 1
              /\ run.fetched[Len(run.fetched)] = run.watches[run.i]["id"]
              /\ run.watches = start.watches
              /\ Enabled(run.watches[run.i])
              /\ run.wrote_state = None /\ run.wrote_watchlist = None
              /\ diskState = start.state /\ diskWatches = start.watches
              /\ run.exit = None

\* a run aborted at its second watch, the update of its first watch lost
C10_AbortLosesUpdates ==
    /\ run.pc = "crashed"
    /\ run.repo /\ ~run.token
    /\ run.i = 2
    /\ Len(run.fetched) = 2
    /\ run.state_changed
    /\ run.fetched[1] \in DOMAIN run.state
    /\ run.fetched[1] \notin DOMAIN diskState

(***************************************************************************)
(* C11: an enabled watch whose id or url is missing or empty is never      *)
(* fetched or checked, no state entry is created or changed for it, in     *)
(* memory or on disk, and the loop goes on: at the top of the loop, and    *)
(* when the run has finished, the pages fetched are exactly those of the   *)
(* enabled watches with an id and a url that the loop has passed.          *)
(***************************************************************************)
MissingOrEmpty(w, f) == f \notin DOMAIN w \/ w[f] = ""

InvalidAtStart ==
    {k \in 1..Len(start.watches) :
        /\ Enabled(start.watches[k])
        /\ MissingOrEmpty(start.watches[k], "id") \/ MissingOrEmpty(start.watches[k], "url")}

\* the positions before position n that hold an enabled watch with an id and a url
CheckableBefore(n) == {k \in 1..(n - 1) : k \notin InvalidAtStart \cup DisabledAtStart}

\* the ids of the watches at the positions K, in the order of the list
RECURSIVE IdsInOrder(_, _)
IdsInOrder(watchlist, K) ==
    IF K = {} THEN <<>>
    ELSE LET k == CHOOSE x \in K : \A y \in K : x <= y
         IN  <<watchlist[k]["id"]>> \o IdsInOrder(watchlist, K \ {k})

C11_InvalidSkipped ==
    Started /\ run.watches # <<>> =>
        /\ \A k \in InvalidAtStart :
              LET id == Get(start.watches[k], "id", "")
              IN  /\ Fetches(run, id) = 0
                  /\ id \notin DOMAIN run.checked
                  /\ GetOpt(run.state, id) = GetOpt(start.state, id)
                  /\ GetOpt(diskState, id) = GetOpt(start.state, id)
                  /\ run.watches[k] = start.watches[k]
        /\ "" \notin DOMAIN run.state
        /\ run.pc = "loop" => run.fetched = IdsInOrder(start.watches, CheckableBefore(run.i))
        /\ run.pc = "done" =>
              run.fetched = IdsInOrder(start.watches, CheckableBefore(Len(run.watches) + 1))

\* a finished run that skipped an invalid first watch and checked the second
C11_SkippedThenChecked ==
    /\ run.pc = "done"
    /\ 1 \in InvalidAtStart
    /\ Len(run.watches) = 2
    /\ 2 \notin InvalidAtStart
    /\ Len(run.fetched) = 1
    /\ run.wrote_state # None

(***************************************************************************)
(* C12: while a run is in its loop, or has been aborted, neither file has  *)
(* been written; a finished run has written the state iff it checked at    *)
(* least one watch and the watch list iff it disabled one, each write      *)
(* holding all the run's updates; and the only step that writes a file is  *)
(* the one that leaves the exhausted loop, so each file is written at most *)
(* once in a run.                                                          *)
(***************************************************************************)
C12_WritesWhenDone ==
    /\ run.pc \in {"loop", "notify", "sleep", "crashed"} =>
          /\ run.wrote_state = None /\ run.wrote_watchlist = None
          /\ diskState = start.state /\ diskWatches = start.watches
    /\ run.pc = "done" =>
          /\ run.wrote_state # None <=> run.fetched # <<>>
          /\ run.wrote_watchlist # None <=> Modified # {}
          /\ diskState = IF run.fetched # <<>> THEN run.state ELSE start.state
          /\ diskWatches = IF Modified # {} THEN run.watches ELSE start.watches

C12_WriteStep ==
    \/ diskState' # diskState
    \/ diskWatches' # diskWatches
    \/ run'.wrote_state # run.wrote_state /\ run'.wrote_state # None
    \/ run'.wrote_watchlist # run.wrote_watchlist /\ run'.wrote_watchlist # None

Progress(p) ==
    IF p.pc \in {"done", "crashed"} THEN 3 * (Len(p.watches) + 2)
    ELSE 3 * p.i + (IF p.pc = "loop" THEN 0 ELSE IF p.pc = "notify" THEN 1 ELSE 2)

C13_RunState ==
    /\ Started /\ ~Resting(run) =>
          \/ CanSkipDisabled(run) \/ CanSkipInvalid(run) \/ CanCheck(run)
          \/ CanDispatch(run) \/ CanSleep(run) \/ CanFinish(run)
    /\ run.pc = "crashed" =>
          /\ run.repo
          /\ run.watches[run.i]["id"] \in Succeeded
          /\ run.checked[run.watches[run.i]["id"]].triggered
    /\ run.pc = "done" =>
          /\ run.exit = Some(0)
          /\ run.fetched = IdsInOrder(start.watches, CheckableBefore(Len(start.watches) + 1))
          /\ DOMAIN run.checked = {run.fetched[k] : k \in 1..Len(run.fetched)}
    /\ run.pc # "done" => run.exit = None
    /\ Started /\ start.watches = <<>> =>
          /\ run.pc = "done"
          /\ run.fetched = <<>> /\ run.requests = 0
          /\ run.wrote_state = None /\ run.wrote_watchlist = None
          /\ diskState = start.state /\ diskWatches = start.watches

C13_ChecksDoNotStopTheRun ==
    /\ []C13_RunState
    /\ [][~Resting(run) /\ run' # run => Progress(run') > Progress(run)]_vars

\* C13 as stated: a run that has ended and in which a check failed has completed with exit code 0
C13_AsStated ==
    Resting(run) /\ Failed # {} => run.pc = "done" /\ run.exit = Some(0)

\* a finished run whose first check failed and whose second watch was still checked
C13_FailedThenChecked ==
    /\ run.pc = "done"
    /\ run.exit = Some(0)
    /\ Len(run.fetched) = 2
    /\ run.fetched[1] \in Failed
    /\ run.fetched[2] \in Succeeded

(***************************************************************************)
(* SpecExtract: extract_keyword_number applied to a page and a keyword.    *)
(* A page is a prefix of any tokens, a core (a keyword with a number in    *)
(* one of the shapes the extractor knows, or nothing) and a suffix.        *)
(***************************************************************************)
PageTokens == {"A", "S", ":", "#", " ", "\n", "0", "1", "x", "<>"}

Keywords == {"A", "S"}

MaxPrefix == 2

Prefixes == UNION {[1..n -> PageTokens] : n \in 0..MaxPrefix}

\* what may stand between the keyword and its number
Gaps ==
    {<<":", " ">>, <<"#", " ">>, <<" ", ":", " ", " ">>, <<"<>", ":", "<>">>, <<" ">>,
     <<"x", " ">>, <<":", "#">>}

Numerals == {<<"0">>, <<"1">>, <<"1", "0">>}

Cores == {<<>>} \cup {<<k>> \o g \o n : k \in Keywords, g \in Gaps, n \in Numerals}

Suffixes == {<<>>, <<"0">>, <<"x">>, <<"\n", "1">>}

ExtractPages == {p \o c \o q : p \in Prefixes, c \in Cores, q \in Suffixes}

InitExtract ==
    /\ diskWatches = <<>>
    /\ diskState = EmptyDict
    /\ run = Idle
    /\ dry = Idle
    /\ start = [watches |-> <<>>, state |-> EmptyDict]
    /\ runs = 0
    /\ posts = [id \in Ids |-> 0]
    /\ prevChecked = EmptyDict
    /\ \E h \in ExtractPages, k \in Keywords : ev = [html |-> h, keyword |-> k, out |-> None]

Extract ==
    /\ ev.out = None
    /\ ev' = [ev EXCEPT !.out = Some(extract_keyword_number(ev.html, ev.keyword))]
    /\ UNCHANGED <<diskWatches, diskState, run, dry, start, runs, posts, prevChecked>>

NextExtract == Extract

SpecExtract == InitExtract /\ [][NextExtract]_vars

(***************************************************************************)
(* Vocabulary: where a text holds "<keyword> <gap> <number>".              *)
(***************************************************************************)
\* the number the digits text[c..e-1] spell
RECURSIVE NumberOf(_, _, _)
NumberOf(text, c, e) ==
    IF e <= c THEN 0 ELSE 10 * NumberOf(text, c, e - 1) + DigitVal(text[e - 1])

\* text[c..e-1] is a whole run of digits
DigitRun(text, c, e) ==
    /\ c < e /\ e <= Len(text) + 1
    /\ \A k \in c..(e - 1) : text[k] \in Digits
    /\ e = Len(text) + 1 \/ text[e] \notin Digits
    /\ c = 1 \/ text[c - 1] \notin Digits

\* text[p+1..c-1] is whitespace with at most one ':' or '#' in it
GapOk(text, p, c) ==
    /\ \A k \in (p + 1)..(c - 1) : text[k] \in Space \cup Separators
    /\ Cardinality({k \in (p + 1)..(c - 1) : text[k] \in Separators}) <= 1

\* the keyword stands at p and its number is text[c..e-1]
KeywordNumberAt(text, kw, p, c, e) ==
    /\ p >= 1 /\ p < c /\ text[p] = kw
    /\ DigitRun(text, c, e)
    /\ GapOk(text, p, c)

\* the same, written exactly "<keyword>: <number>"
PlainKeywordNumberAt(text, kw, p, c, e) ==
    /\ KeywordNumberAt(text, kw, p, c, e)
    /\ c = p + 3 /\ text[p + 1] = ":" /\ text[p + 2] = " "

Places(text) == 1..(Len(text) + 1)

KeywordPlaces(text, kw) == {p \in 1..Len(text) : text[p] = kw}

(***************************************************************************)
(* C14 (as amended): when the visible text holds the keyword followed by   *)
(* ':' or '#' or neither, with any whitespace around it, and a number N,   *)
(* and no earlier place of the text holds the keyword with a number in     *)
(* this way, extract_keyword_number returns N.                             *)
(***************************************************************************)
C14_FirstKeywordNumber ==
    ev.out # None =>
        LET text == Normalize(ev.html)
        IN  \A p \in KeywordPlaces(text, ev.keyword), c \in Places(text), e \in Places(text) :
                /\ KeywordNumberAt(text, ev.keyword, p, c, e)
                /\ ~\E p2 \in 1..(p - 1), c2 \in Places(text), e2 \in Places(text) :
                       KeywordNumberAt(text, ev.keyword, p2, c2, e2)
                => ev.out = Some(Some(NumberOf(text, c, e)))

\* C14 as stated: wherever the text holds "<keyword>: <N>", the result is N
C14_AsStated ==
    ev.out # None =>
        LET text == Normalize(ev.html)
        IN  \A p \in KeywordPlaces(text, ev.keyword), c \in Places(text), e \in Places(text) :
                PlainKeywordNumberAt(text, ev.keyword, p, c, e)
                => ev.out = Some(Some(NumberOf(text, c, e)))

\* the number 10 extracted after a '#' between tags, for the keyword "Seats"
C14_HashInMarkup ==
    /\ ev.out = Some(Some(10))
    /\ ev.keyword = "S"
    /\ \E k \in 1..Len(ev.html) : ev.html[k] = "#"
    /\ \E k \in 1..Len(ev.html) : ev.html[k] = "<>"
    /\ \A k \in 1..Len(ev.html) : ev.html[k] # "A"

(***************************************************************************)
(* SpecCond: eval_condition applied to a value, an operator and a          *)
(* threshold, and get_watch_result applied to a watch whose condition is   *)
(* given or omitted.                                                       *)
(***************************************************************************)
MaxInt == 2

CondInts == (0 - MaxInt)..MaxInt

CondOps == SupportedOps \cup {"=>", "=", ""}

CondPages == {<<"A", ":", " ", "0">>, <<"A", ":", " ", "1">>, <<"A", ":", " ", "1", "0">>}

CondWatches ==
    {[url |-> PageUrl, extract |-> KeywordNumber],
     [url |-> PageUrl, extract |-> KeywordNumber, condition |-> [op |-> "<", value |-> 1]]}

InitCond ==
    /\ diskWatches = <<>>
    /\ diskState = EmptyDict
    /\ run = Idle
    /\ dry = Idle
    /\ start = [watches |-> <<>>, state |-> EmptyDict]
    /\ runs = 0
    /\ posts = [id \in Ids |-> 0]
    /\ prevChecked = EmptyDict
    /\ \E v \in CondInts, o \in CondOps, r \in CondInts, w \in CondWatches, h \in CondPages :
           ev = [value |-> v, op |-> o, rhs |-> r, out |-> None,
                 watch |-> w, fetch |-> Fetched(h), res |-> None]

EvalCondition ==
    /\ ev.out = None
    /\ ev' = [ev EXCEPT !.out = Some(eval_condition(ev.value, ev.op, ev.rhs))]
    /\ UNCHANGED <<diskWatches, diskState, run, dry, start, runs, posts, prevChecked>>

EvalWatch ==
    /\ ev.res = None
    /\ ev' = [ev EXCEPT !.res = Some(get_watch_result(ev.watch, ev.fetch))]
    /\ UNCHANGED <<diskWatches, diskState, run, dry, start, runs, posts, prevChecked>>

NextCond == EvalCondition \/ EvalWatch

SpecCond == InitCond /\ [][NextCond]_vars

\* the number a page of CondPages shows
Shown(html) == NumberOf(html, 4, Len(html) + 1)

(***************************************************************************)
(* C15: eval_condition returns the truth value of "value op threshold"     *)
(* for each of >, >=, ==, !=, <, <= and raises for any other operator; a   *)
(* watch without a condition is available exactly when its value is > 0.   *)
(***************************************************************************)
C15_SixOperators ==
    /\ ev.out # None =>
           LET v == ev.value
               r == ev.rhs
               out == ev.out[1]
           IN  /\ ev.op = ">" => out = Return(v > r)
               /\ ev.op = ">=" => out = Return(v > r \/ v = r)
               /\ ev.op = "==" => out = Return(v = r)
               /\ ev.op = "!=" => out = Return(v < r \/ v > r)
               /\ ev.op = "<" => out = Return(r > v)
               /\ ev.op = "<=" => out = Return(~(v > r))
               /\ ev.op \notin {">", ">=", "==", "!=", "<", "<="} => out.kind = "raise"
    /\ ev.res # None /\ "condition" \notin DOMAIN ev.watch =>
           LET n == Shown(ev.fetch.html)
           IN  ev.res[1] = Return(WatchResult(Some(n), Some(n > 0), None))

\* ">=" held at equality, and a watch without a condition read 0 as not available
C15_EqualityAndDefault ==
    /\ ev.out = Some(Return(TRUE)) /\ ev.op = ">=" /\ ev.value = ev.rhs /\ ev.value < 0
    /\ ev.res # None /\ "condition" \notin DOMAIN ev.watch
    /\ ev.res[1].val.value = Some(0) /\ ev.res[1].val.available = Some(FALSE)

(***************************************************************************)
(* Vocabulary: the three strategies of the extractor, each described by    *)
(* the place of the text it reads its number from.                         *)
(***************************************************************************)
\* the least member of a non-empty set of tuples, by first component
Leftmost(H) == CHOOSE h \in H : \A g \in H : h[1] <= g[1]

\* the number after the leftmost kw that has one, None when no kw has one
ByPattern(text, kw) ==
    LET H == {h \in KeywordPlaces(text, kw) \X Places(text) \X Places(text) :
                  KeywordNumberAt(text, kw, h[1], h[2], h[3])}
    IN  IF H = {} THEN None
        ELSE Some(NumberOf(text, Leftmost(H)[2], Leftmost(H)[3]))

SameLine(text, i, j) == \A k \in i..j : text[k] # "\n"

OnLineOf(text, i, j) == IF i <= j THEN SameLine(text, i, j) ELSE SameLine(text, j, i)

\* text[c..e-1] is the first digit run of its line
FirstRunOfLine(text, c, e) ==
    /\ DigitRun(text, c, e)
    /\ \A k \in 1..(c - 1) : text[k] \in Digits => ~SameLine(text, k, c)

\* the first digit run of the first line that holds both kw and digits
ByLine(text, kw) ==
    LET H == {h \in Places(text) \X Places(text) :
                  /\ FirstRunOfLine(text, h[1], h[2])
                  /\ \E p \in KeywordPlaces(text, kw) : OnLineOf(text, p, h[1])}
    IN  IF H = {} THEN None
        ELSE Some(NumberOf(text, Leftmost(H)[1], Leftmost(H)[2]))

\* the first digit run of the first line that holds kw
ByFirstLine(text, kw) ==
    LET P == KeywordPlaces(text, kw)
        first == CHOOSE p \in P : \A q \in P : p <= q
        H == {h \in Places(text) \X Places(text) :
                  FirstRunOfLine(text, h[1], h[2]) /\ OnLineOf(text, first, h[1])}
    IN  IF P = {} \/ H = {} THEN None
        ELSE Some(NumberOf(text, Leftmost(H)[1], Leftmost(H)[2]))

(***************************************************************************)
(* C16 (as amended): the result is that of the keyword's pattern when it   *)
(* matches; else that of the built-in "Availability no" pattern when it    *)
(* matches; else the first digit run of the first line that holds both     *)
(* the keyword and a digit; else None.                                     *)
(***************************************************************************)
C16_StrategiesInOrder ==
    ev.out # None =>
        LET text == Normalize(ev.html)
            s1 == ByPattern(text, ev.keyword)
            s2 == ByPattern(text, DefaultKeyword)
            s3 == ByLine(text, ev.keyword)
        IN  ev.out[1] = IF s1 # None THEN s1 ELSE IF s2 # None THEN s2 ELSE s3

\* C16 as stated: the third strategy reads the first line that holds the keyword
C16_AsStated ==
    ev.out # None =>
        LET text == Normalize(ev.html)
            s1 == ByPattern(text, ev.keyword)
            s2 == ByPattern(text, DefaultKeyword)
            s3 == ByFirstLine(text, ev.keyword)
        IN  ev.out[1] = IF s1 # None THEN s1 ELSE IF s2 # None THEN s2 ELSE s3

\* the built-in pattern decided although a line with the keyword shows another number
C16_DefaultBeforeLineScan ==
    /\ ev.out # None /\ ev.out[1] # None
    /\ ev.keyword = "S"
    /\ ByPattern(Normalize(ev.html), "S") = None
    /\ ByLine(Normalize(ev.html), "S") \notin {None, ev.out[1]}

(***************************************************************************)
(* C17: within a run, a delay step lies between any two fetches of watch   *)
(* pages, also when the earlier check ended in an error: the delays never  *)
(* outnumber the fetches, and a page is fetched only when every earlier    *)
(* fetch of the run has had its delay.                                     *)
(***************************************************************************)
C17_DelaysFollowFetches ==
    /\ run.sleeps <= Len(run.fetched)
    /\ run.sleeps >= Len(run.fetched) - 1
    /\ run.pc \in {"loop", "done"} => run.sleeps = Len(run.fetched)

C17_FetchStep == Len(run'.fetched) = Len(run.fetched) + 1

C17_DelayBetweenFetches ==
    /\ []C17_DelaysFollowFetches
    /\ [][C17_FetchStep => run.pc = "loop" /\ run.sleeps = Len(run.fetched)
                           /\ run'.sleeps = run.sleeps]_vars

\* the second page of a run fetched after the first check failed and one delay
C17_FetchAfterFailedCheck ==
    /\ Len(run.fetched) = 2
    /\ run.fetched[1] # run.fetched[2]
    /\ run.fetched[1] \in Failed
    /\ run.sleeps = 1

(***************************************************************************)
(* SpecEdited: the runs of Spec, with a user who edits watchlist.yml       *)
(* after the first run: a watch is taken off the list, or loses its url.   *)
(***************************************************************************)
Without(watchlist, k) ==
    [j \in 1..(Len(watchlist) - 1) |-> IF j < k THEN watchlist[j] ELSE watchlist[j + 1]]

EditWatchlist ==
    /\ Resting(run)
    /\ runs = 1
    /\ \E k \in 1..Len(diskWatches) :
          \/ diskWatches' = Without(diskWatches, k)
          \/ /\ GetOpt(diskWatches[k], "url") # Some("")
             /\ diskWatches' = [diskWatches EXCEPT ![k] = Put(@, "url", "")]
    /\ UNCHANGED <<diskState, run, dry, start, runs, posts, prevChecked, ev>>

NextEdited == Next \/ EditWatchlist

SpecEdited == Init /\ [][NextEdited]_vars

\* the ids of the watches of a list
IdsOf(watchlist) ==
    {id \in Ids : \E k \in 1..Len(watchlist) : GetOpt(watchlist[k], "id") = Some(id)}

HasError(state, id) == "error" \in DOMAIN EntryOf(state, id)

(***************************************************************************)
(* C18 (as amended): in the persisted state a watch's entry carries an     *)
(* 'error' field exactly when the watch's most recent check in a run that  *)
(* went to completion failed; a run that is under way or was aborted       *)
(* leaves the persisted state as it was; no entry that was there when a    *)
(* run began is ever missing afterwards, and the entry of a watch the run  *)
(* did not check (disabled, invalid or no longer listed) is unchanged.     *)
(***************************************************************************)
C18_ErrorIffLastCheckFailed ==
    /\ \A id \in DOMAIN prevChecked :
          /\ id \in DOMAIN diskState
          /\ HasError(diskState, id) <=> prevChecked[id].res.error # None
    /\ run.pc # "done" => diskState = start.state
    /\ \A id \in DOMAIN start.state :
          /\ id \in DOMAIN diskState
          /\ run.pc = "done" /\ id \in DOMAIN run.checked
                 => (HasError(diskState, id) <=> id \in Failed)
          /\ id \notin DOMAIN run.checked => diskState[id] = start.state[id]

\* C18 as stated: the entry follows the most recent check of every run
C18_AsStated ==
    Resting(run) =>
        \A id \in DOMAIN run.checked :
            /\ id \in DOMAIN diskState
            /\ HasError(diskState, id) <=> id \in Failed

\* after a second run: a success removed an 'error', and the entry of a watch
\* taken off the list still carries its 'error'
C18_ClearedAndKept ==
    /\ run.pc = "done" /\ runs = 2
    /\ \E id \in Succeeded : HasError(start.state, id) /\ ~HasError(diskState, id)
    /\ \E id \in DOMAIN diskState : id \notin IdsOf(diskWatches) /\ HasError(diskState, id)

(***************************************************************************)
(* C19: the 'available' a check is compared with is that of the watch's    *)
(* most recent successful check in a completed run.  The persisted         *)
(* 'available' of a watch changes only when a run completes in which the   *)
(* watch's check succeeded, and then it becomes that check's result: runs  *)
(* in which the check fails leave it as it was, however many there are.    *)
(* A run reads the persisted value when it starts, and a successful check  *)
(* triggers exactly when its result is available and that value is not.    *)
(***************************************************************************)
StoredAvailable(state, id) == GetOpt(EntryOf(state, id), "available")

C19_ComparedWithStored ==
    /\ run.pc # "done" => diskState = start.state
    /\ \A id \in DOMAIN prevChecked :
          prevChecked[id].res.error = None
              => StoredAvailable(diskState, id) = prevChecked[id].res.available
    /\ \A id \in DOMAIN run.checked :
          run.checked[id].triggered
              <=> /\ id \in Succeeded
                  /\ run.checked[id].res.available = Some(TRUE)
                  /\ StoredAvailable(start.state, id) # Some(TRUE)

C19_StoredChanges(id) == StoredAvailable(diskState', id) # StoredAvailable(diskState, id)

C19_FailedChecksTransparent ==
    /\ []C19_ComparedWithStored
    /\ [][\A id \in Ids :
              C19_StoredChanges(id)
                  => /\ run.pc = "loop" /\ run'.pc = "done"
                     /\ id \in Succeeded
                     /\ StoredAvailable(diskState', id) = run.checked[id].res.available]_vars

\* a third run finds both watches available after a run in which both checks
\* failed: the one that was available before does not fire, the other fires
C19_OneFiresOneDoesNot ==
    /\ runs = 3 /\ run.pc # "done"
    /\ \A id \in Ids :
          /\ id \in DOMAIN prevChecked /\ prevChecked[id].res.error # None
          /\ id \in Succeeded /\ run.checked[id].res.available = Some(TRUE)
    /\ ~run.checked["a"].triggered
    /\ StoredAvailable(start.state, "a") = Some(TRUE)
    /\ run.checked["b"].triggered

(***************************************************************************)
(* C20: main() never re-enables a watch.  The watch list keeps its length  *)
(* and its watches, but for 'enabled' set to false on an enabled once-mode *)
(* watch that triggered in the run that writes the list.  A watch that is  *)
(* disabled in the list stays as it is, no step fetches its page, and its  *)
(* persisted state entry stays as it is (or stays missing).                *)
(***************************************************************************)
\* the id of a watch as a set: empty when the watch has none
IdOf(w) == {id \in Ids : GetOpt(w, "id") = Some(id)}

C20_DisabledInRun ==
    Started /\ run.watches # <<>> =>
        /\ Len(run.watches) = Len(start.watches)
        /\ \A k \in DisabledAtStart :
              /\ run.watches[k] = start.watches[k]
              /\ \A id \in IdOf(start.watches[k]) :
                    /\ Fetches(run, id) = 0
                    /\ id \notin DOMAIN run.checked
                    /\ EntryOf(run.state, id) = EntryOf(start.state, id)

C20_ListStep ==
    /\ Len(diskWatches') = Len(diskWatches)
    /\ \A k \in 1..Len(diskWatches) :
          LET w == diskWatches[k]
          IN  /\ diskWatches'[k] # w =>
                    /\ run.pc = "loop" /\ run'.pc = "done"
                    /\ Enabled(w) /\ IsOnce(w)
                    /\ diskWatches'[k] = Put(w, "enabled", FALSE)
                    /\ \E id \in IdOf(w) : id \in DOMAIN run.checked /\ run.checked[id].triggered
              /\ ~Enabled(w) =>
                    /\ diskWatches'[k] = w
                    /\ \A id \in IdOf(w) :
                          /\ id \in DOMAIN diskState' <=> id \in DOMAIN diskState
                          /\ EntryOf(diskState', id) = EntryOf(diskState, id)
                          /\ Fetches(run', id) = 0

C20_NeverReenabled == []C20_DisabledInRun /\ [][C20_ListStep]_vars

\* a later run that passed over a watch an earlier run had checked and disabled,
\* and wrote the state for another watch
C20_DisabledLeftAlone ==
    /\ runs >= 2 /\ run.pc = "done" /\ run.wrote_state # None
    /\ \E k \in DisabledAtStart :
          /\ diskWatches[k] = start.watches[k]
          /\ \E id \in IdOf(start.watches[k]) :
                /\ id \in DOMAIN start.state
                /\ diskState[id] = start.state[id]

====
